---- MODULE Spec2Model ----
(***************************************************************************)
(* Model of the mood playlist recommender: the detector (mood_detector.py),*)
(* the stability gate and the run loop (main.py) and the playlist          *)
(* recommender (spotify_client.py).                                        *)
(***************************************************************************)
EXTENDS Integers, Sequences, FiniteSets, TLC

(* ---------------------------------------------------------------- bounds *)
MaxFrames == 120   \* frames the camera delivers in one run
MaxClock == 22     \* wall-clock seconds of one run
MaxFaces == 1      \* face boxes on one frame
MaxSmiles == 1     \* smile boxes on one frame
MaxEyes == 2       \* eye boxes on one frame
MaxItems == 1      \* playlists in one search response
MaxList == 4       \* candidates in a list that is de-duplicated
MaxResults == 2    \* raw playlists in a response that is validated
MaxTime == 56      \* wall-clock seconds the rotation is watched for

(* ------------------------------------------------------ program constants *)
None == "None"                         \* Python's None
Unbound == "<unbound>"                 \* a local of a function that is not running
FRAME_SKIP == 30                       \* config.py:28
required_stability == 3                \* main.py:173
emotion_duration == 10                 \* mood_detector.py:42
emotions == <<"happy", "sad", "neutral", "angry", "surprise">>
PLACEHOLDER_ID == "your_client_id_here"
PLACEHOLDER_SECRET == "your_client_secret_here"
DEFAULT_REDIRECT == "http://127.0.0.1:8080/callback"

MOOD_MAPPING ==
  [m \in {"happy", "sad", "angry", "fear", "surprise", "disgust", "neutral"} |->
     CASE m = "happy"    -> <<"happy", "party", "upbeat", "energetic", "dance">>
       [] m = "sad"      -> <<"sad", "melancholy", "blues", "emotional", "heartbreak">>
       [] m = "angry"    -> <<"rock", "metal", "aggressive", "intense", "hardcore">>
       [] m = "fear"     -> <<"ambient", "calm", "peaceful", "meditation", "relaxing">>
       [] m = "surprise" -> <<"pop", "hits", "trending", "viral", "popular">>
       [] m = "disgust"  -> <<"alternative", "indie", "experimental", "underground">>
       [] m = "neutral"  -> <<"chill", "lofi", "background", "study", "focus">>]

SPOTIFY_PREFIX == "https://open.spotify.com/"
broader_keywords == <<"music", "playlist", "songs">>   \* spotify_client.py:271

(* ------------------------------------------------------------------ state *)
VARIABLES
  pc,                     \* position of the program
  client_id,              \* Config.SPOTIFY_CLIENT_ID
  client_secret,          \* Config.SPOTIFY_CLIENT_SECRET
  redirect_uri,           \* Config.SPOTIFY_REDIRECT_URI
  cap,                    \* MoodDetector.cap: "none", "closed", "open", "released"
  face_cascade,           \* TRUE when the cascades were loaded
  sp,                     \* SpotifyClient.sp is set
  frame_count,            \* MoodDetector.frame_count
  current_emotion_index,  \* MoodDetector.current_emotion_index (0-based)
  last_emotion_time,      \* MoodDetector.last_emotion_time
  clock,                  \* time.time(), seconds since construction
  last_mood,              \* local of detect_mood_single_cycle
  mood_stability_count,   \* local of detect_mood_single_cycle
  detected_mood,          \* local of detect_mood_single_cycle: label of the last attempt
  run_detected_mood,      \* local detected_mood of run: what the cycle returned
  attempt,                \* what the last loop iteration observed (history)
  labels,                 \* the non-None labels the gate received in this cycle (history)
  mood_keywords,          \* argument of get_mood_playlist_recommendation
  keywords,               \* argument of the running search_mood_playlists
  ki,                     \* position of its keyword loop
  results,                \* the raw items of the response sp.search gave last
  all_playlists,          \* local of search_mood_playlists
  playlists,              \* local of get_mood_playlist_recommendation
  searches,               \* keyword lists searched for this recommendation (history)
  requests,               \* keywords this search issued a catalog request for (history)
  last_response,          \* how the last of these requests ended (history)
  failed_at,              \* position of the last keyword whose request raised (history)
  recommended_playlist,   \* what get_mood_playlist_recommendation returned
  opened,                 \* URL handed to the browser for this recommendation (history)
  requested_url,           \* argument open_playlist_in_browser was called with (history)
  success                 \* what recommend_playlist returned

detector_vars == <<cap, face_cascade, frame_count, current_emotion_index,
                   last_emotion_time, clock>>
gate_vars == <<last_mood, mood_stability_count, detected_mood, attempt, labels>>
config_vars == <<client_id, client_secret, redirect_uri>>
search_vars == <<keywords, ki, results, all_playlists, requests, last_response, failed_at>>
rec_vars == <<mood_keywords, search_vars, playlists, searches, recommended_playlist,
              opened, requested_url, success>>
vars == <<pc, config_vars, sp, detector_vars, gate_vars, run_detected_mood, rec_vars>>

(* ------------------------------------------------------------- detector *)
NoFeatures == [faces |-> 0, smiles |-> 0, eyes |-> 0]

\* what detectMultiScale can report: smiles and eyes are searched inside faces
FeatureSets ==
  {f \in [faces : 0..MaxFaces, smiles : 0..MaxSmiles, eyes : 0..MaxEyes] :
     f.faces = 0 => (f.smiles = 0 /\ f.eyes = 0)}

\* detect_faces_and_features: zero counts without cascades or on an exception
detect_faces_and_features(found, raised) ==
  IF ~face_cascade THEN NoFeatures
  ELSE IF raised THEN NoFeatures
  ELSE found

\* the eye rule tried before the smile rule
simple_emotion_logic_eyes_first(features) ==
  IF features.faces = 0 THEN None
  ELSE IF features.eyes >= 2 THEN "neutral"
  ELSE IF features.smiles > 0 THEN "happy"
  ELSE "sad"

simple_emotion_logic(features) ==
  IF features.faces = 0 THEN None
  ELSE IF features.smiles > 0 THEN "happy"
  ELSE IF features.eyes >= 2 THEN "neutral"
  ELSE "sad"

\* the pointer advances already at exactly emotion_duration seconds
demo_emotion_rotation_at_duration(index, last_time, current_time) ==
  IF current_time - last_time >= emotion_duration
  THEN [index |-> (index + 1) % Len(emotions), last |-> current_time]
  ELSE [index |-> index, last |-> last_time]

\* demo_emotion_rotation: the pointer and timestamp after the call at current_time
demo_emotion_rotation(index, last_time, current_time) ==
  IF current_time - last_time > emotion_duration
  THEN [index |-> (index + 1) % Len(emotions), last |-> current_time]
  ELSE [index |-> index, last |-> last_time]

\* detect_mood_from_frame: the label and the rotation state after the call
detect_mood_from_frame(found, exc, current_time) ==
  LET features == detect_faces_and_features(found, exc = "features")
      emotion == simple_emotion_logic(features)
      rot == demo_emotion_rotation(current_emotion_index, last_emotion_time, current_time)
      same == [index |-> current_emotion_index, last |-> last_emotion_time]
  IN IF exc = "mood"
     THEN [mood |-> None, rot |-> same, features |-> NoFeatures]
     ELSE IF features.faces > 0 /\ emotion # None
     THEN [mood |-> emotion, rot |-> same, features |-> features]
     ELSE [mood |-> emotions[rot.index + 1], rot |-> rot, features |-> features]

\* a failed read advances the frame count as well
capture_and_detect_counts_failed_reads(frame_skip, ret, found, exc, current_time) ==
  LET same == [index |-> current_emotion_index, last |-> last_emotion_time]
      d == detect_mood_from_frame(found, exc, current_time)
  IN IF cap # "open" \/ exc = "capture" \/ ~ret
     THEN [mood |-> None, frame |-> FALSE, count |-> frame_count + 1, rot |-> same,
           processed |-> FALSE, features |-> NoFeatures]
     ELSE IF (frame_count + 1) % frame_skip # 0
     THEN [mood |-> None, frame |-> TRUE, count |-> frame_count + 1, rot |-> same,
           processed |-> FALSE, features |-> NoFeatures]
     ELSE [mood |-> d.mood, frame |-> TRUE, count |-> frame_count + 1, rot |-> d.rot,
           processed |-> TRUE, features |-> d.features]

\* capture_and_detect: (mood, frame is not None) and the detector state after it
capture_and_detect(frame_skip, ret, found, exc, current_time) ==
  LET same == [index |-> current_emotion_index, last |-> last_emotion_time]
      failed == [mood |-> None, frame |-> FALSE, count |-> frame_count, rot |-> same,
                 processed |-> FALSE, features |-> NoFeatures]
      d == detect_mood_from_frame(found, exc, current_time)
  IN IF cap # "open" THEN failed
     ELSE IF exc = "capture" THEN failed
     ELSE IF ~ret THEN failed
     ELSE IF (frame_count + 1) % frame_skip # 0
     THEN [mood |-> None, frame |-> TRUE, count |-> frame_count + 1, rot |-> same,
           processed |-> FALSE, features |-> NoFeatures]
     ELSE [mood |-> d.mood, frame |-> TRUE, count |-> frame_count + 1, rot |-> d.rot,
           processed |-> TRUE, features |-> d.features]

(* -------------------------------------------------------- stability gate *)
\* a new label takes the counter over instead of restarting it
StabilityGate_no_reset(held, count, mood) ==
  IF mood # None
  THEN [last_mood |-> mood, count |-> count + 1]
  ELSE [last_mood |-> held, count |-> count]

\* an attempt without a label restarts the gate
StabilityGate_none_resets(held, count, mood) ==
  IF mood # None
  THEN IF mood = held
       THEN [last_mood |-> held, count |-> count + 1]
       ELSE [last_mood |-> mood, count |-> 1]
  ELSE [last_mood |-> None, count |-> 0]

\* main.py 190-197: the held label and the counter after one attempt
StabilityGate(held, count, mood) ==
  IF mood # None
  THEN IF mood = held
       THEN [last_mood |-> held, count |-> count + 1]
       ELSE [last_mood |-> mood, count |-> 1]
  ELSE [last_mood |-> held, count |-> count]

(* ------------------------------------------------------- detection cycle *)
NoAttempt == [frame |-> FALSE, processed |-> FALSE, features |-> NoFeatures,
              quit |-> FALSE, fault |-> "none", display |-> FALSE]

\* what time.time() can have advanced by since the previous loop iteration
TimeSteps == {0, emotion_duration + 1}

\* the quit key returns the held label
CycleResult_quit_returns_held(display_error, key, held, count) ==
  IF display_error THEN None
  ELSE IF key = "q" THEN held
  ELSE IF count < required_stability THEN Unbound
  ELSE held

\* the quit key is looked at only while the label is not yet stable
CycleResult_stable_first(display_error, key, held, count) ==
  IF display_error THEN None
  ELSE IF count >= required_stability THEN held
  ELSE IF key = "q" THEN None
  ELSE Unbound

\* main.py 176, 200-209: what the iteration returns, Unbound when the loop goes on
CycleResult(display_error, key, held, count) ==
  IF display_error THEN None
  ELSE IF key = "q" THEN None
  ELSE IF count < required_stability THEN Unbound
  ELSE held

\* What one loop iteration can meet.  read: cap.read() "raised", returned "no_frame"
\* or a "frame"; exc: an exception in feature detection ("features") or elsewhere in
\* detect_mood_from_frame ("mood"); display: draw_overlay or imshow raised.
Encounters ==
  LET sampled == cap = "open" /\ (frame_count + 1) % FRAME_SKIP = 0
  IN {e \in [read : {"raised", "no_frame", "frame"}, found : FeatureSets,
             exc : {"none", "features", "mood"}, display : BOOLEAN,
             key : {"q", "other"}] :
        /\ (e.read # "frame" \/ ~sampled) => (e.found = NoFeatures /\ e.exc = "none")
        /\ e.read # "frame" => ~e.display
        /\ e.display => e.key = "other"
        /\ (e.exc = "mood" \/ ~face_cascade) => e.found = NoFeatures
        /\ ~face_cascade => e.exc # "features"
        /\ e.exc = "features" => e.found # NoFeatures}

\* main.py 171-173: the locals of a fresh cycle
CycleStart ==
  /\ pc = "cycle_start"
  /\ last_mood' = None
  /\ mood_stability_count' = 0
  /\ detected_mood' = Unbound
  /\ attempt' = NoAttempt
  /\ labels' = <<>>
  /\ pc' = "cycle"
  /\ UNCHANGED <<config_vars, sp, detector_vars, run_detected_mood, rec_vars>>

\* main.py 176-214: one iteration of the while loop of detect_mood_single_cycle
Attempt ==
  /\ pc = "cycle"
  /\ \E dt \in TimeSteps, e \in Encounters :
       LET now == clock + dt
           r == capture_and_detect(FRAME_SKIP, e.read = "frame", e.found,
                                   IF e.read = "raised" THEN "capture" ELSE e.exc, now)
           g == IF e.display
                THEN [last_mood |-> last_mood, count |-> mood_stability_count]
                ELSE StabilityGate(last_mood, mood_stability_count, r.mood)
           result == CycleResult(e.display, e.key, g.last_mood, g.count)
       IN /\ now <= MaxClock
          /\ r.count <= MaxFrames
          /\ clock' = now
          /\ frame_count' = r.count
          /\ current_emotion_index' = r.rot.index
          /\ last_emotion_time' = r.rot.last
          /\ detected_mood' = r.mood
          /\ last_mood' = g.last_mood
          /\ mood_stability_count' = g.count
          /\ labels' = IF r.mood # None /\ ~e.display
                       THEN Append(labels, r.mood) ELSE labels
          /\ attempt' = [frame |-> r.frame, processed |-> r.processed,
                         features |-> r.features,
                         quit |-> e.key = "q", fault |-> e.exc, display |-> e.display]
          /\ run_detected_mood' = result
          /\ pc' = IF result = Unbound THEN "cycle" ELSE "cycle_ret"
  /\ UNCHANGED <<config_vars, sp, cap, face_cascade, rec_vars>>

\* main.py 225-234: the cycle has returned, its locals are gone
CycleReturn ==
  /\ pc = "cycle_ret"
  /\ pc' = IF run_detected_mood # None THEN "recommend" ELSE "ask"
  /\ last_mood' = Unbound
  /\ mood_stability_count' = Unbound
  /\ detected_mood' = Unbound
  /\ attempt' = NoAttempt
  /\ labels' = <<>>
  /\ UNCHANGED <<config_vars, sp, detector_vars, run_detected_mood, rec_vars>>

(* ------------------------------------------------------------ recommender *)
\* A URL is modelled as <<origin, path>>; the empty string is <<>>.
NoUrl == <<>>
Url(path) == <<SPOTIFY_PREFIX, path>>

\* A raw playlist of a search result.  total = 0 also stands for a missing or empty
\* track collection, url = NoUrl for missing external_urls; owner is "none" (missing
\* or empty), "dict" or "str" (a value that is no dict).  total is a count of
\* tracks, a natural number.
Raw(name, url, total, owner) ==
  [name |-> name, url |-> url, total |-> total, owner |-> owner]
\* None where a playlist dictionary is expected
NoneDict == [null |-> TRUE]

\* the track total is not looked at
_is_valid_playlist_any_total(playlist) ==
  IF playlist = NoneDict THEN FALSE
  ELSE IF \/ playlist.name = ""
          \/ playlist.url = NoUrl
          \/ playlist.owner = "none" THEN FALSE
  ELSE IF playlist.url = NoUrl THEN FALSE
  ELSE IF playlist.owner # "dict" THEN FALSE
  ELSE TRUE

_is_valid_playlist(playlist) ==
  IF playlist = NoneDict THEN FALSE
  ELSE IF \/ playlist.name = ""
          \/ playlist.url = NoUrl
          \/ playlist.total = 0
          \/ playlist.owner = "none" THEN FALSE
  ELSE IF playlist.total = 0 THEN FALSE
  ELSE IF playlist.url = NoUrl THEN FALSE
  ELSE IF playlist.owner # "dict" THEN FALSE
  ELSE TRUE

_extract_playlist_info(playlist) ==
  [name |-> playlist.name, url |-> playlist.url, tracks_count |-> playlist.total]

\* spotify_client.py 226-233: the candidates one list of raw results contributes
RECURSIVE Candidates(_)
Candidates(items) ==
  IF items = <<>> THEN <<>>
  ELSE LET playlist == Head(items)
           playlist_info == _extract_playlist_info(playlist)
       IN IF ~_is_valid_playlist(playlist) THEN Candidates(Tail(items))
          ELSE IF playlist_info.url # NoUrl
          THEN <<playlist_info>> \o Candidates(Tail(items))
          ELSE Candidates(Tail(items))

\* _remove_duplicates: seen_urls is the set of URLs already kept
RECURSIVE RemoveFrom(_, _)
RemoveFrom(list, seen_urls) ==
  IF list = <<>> THEN <<>>
  ELSE LET playlist == Head(list)
       IN IF playlist = NoneDict THEN RemoveFrom(Tail(list), seen_urls)
          ELSE IF playlist.url # NoUrl /\ playlist.url \notin seen_urls
          THEN <<playlist>> \o RemoveFrom(Tail(list), seen_urls \cup {playlist.url})
          ELSE RemoveFrom(Tail(list), seen_urls)

\* duplicates are recognised by the whole record, not by the URL
RECURSIVE RemoveSame(_, _)
RemoveSame(list, seen) ==
  IF list = <<>> THEN <<>>
  ELSE LET playlist == Head(list)
       IN IF playlist = NoneDict THEN RemoveSame(Tail(list), seen)
          ELSE IF playlist.url # NoUrl /\ playlist \notin seen
          THEN <<playlist>> \o RemoveSame(Tail(list), seen \cup {playlist})
          ELSE RemoveSame(Tail(list), seen)

_remove_duplicates_by_record(list) == RemoveSame(list, {})

_remove_duplicates(list) == RemoveFrom(list, {})

\* spotify_client.py 193: an empty or non-string keyword is skipped
NonStrings == {"<42>"}
SkipKeyword(keyword) == keyword = "" \/ keyword \in NonStrings

\* spotify_client.py 199-222: the raw results a response of sp.search yields
ResponseItems(response) ==
  IF response.kind = "ok" THEN response.items ELSE <<>>

\* the track-count filter is left out
QualityPlaylists_unfiltered(list) == list

\* spotify_client.py 278-281: the candidates the choice is made among
QualityPlaylists(list) ==
  LET quality_playlists == SelectSeq(list, LAMBDA p : p.tracks_count >= 10)
  IN IF quality_playlists = <<>> THEN list ELSE quality_playlists

\* main.py 73
get_mood_keywords(mood) ==
  IF mood \in DOMAIN MOOD_MAPPING THEN MOOD_MAPPING[mood] ELSE MOOD_MAPPING["neutral"]

\* any non-empty URL is handed to the browser
open_playlist_in_browser_any_url(playlist_url) == playlist_url

\* open_playlist_in_browser: the URL handed to webbrowser.open, NoUrl when refused
open_playlist_in_browser(playlist_url) ==
  IF playlist_url = NoUrl THEN NoUrl
  ELSE IF playlist_url[1] # SPOTIFY_PREFIX THEN NoUrl
  ELSE playlist_url

\* a failed request throws away what the earlier keywords found
Collected_failure_clears(found, response) ==
  IF response.kind = "raised" THEN <<>>
  ELSE found \o Candidates(ResponseItems(response))

\* spotify_client.py 198-239: all_playlists after the response for one keyword
Collected(found, response) == found \o Candidates(ResponseItems(response))

\* the call of search_mood_playlists(list): spotify_client.py 181-190
SearchCall(list) ==
  /\ searches' = Append(searches, list)
  /\ keywords' = list
  /\ requests' = <<>>
  /\ last_response' = "none"
  /\ failed_at' = 0
  /\ all_playlists' = <<>>
  /\ ki' = 1
  /\ results' = <<>>
  /\ IF ~sp \/ list = <<>>
     THEN pc' = "searched" /\ playlists' = <<>>
     ELSE pc' = "search" /\ UNCHANGED playlists

\* main.py 85-92: recommend_playlist up to the call of the recommender
RecommendPlaylist ==
  /\ pc = "recommend"
  /\ mood_keywords' = get_mood_keywords(run_detected_mood)
  /\ pc' = "get_rec"
  /\ UNCHANGED <<config_vars, sp, detector_vars, gate_vars, run_detected_mood, search_vars,
                 playlists, searches, recommended_playlist, opened, requested_url,
                 success>>

\* spotify_client.py 260-265
GetRecommendation ==
  /\ pc = "get_rec"
  /\ IF mood_keywords = <<>>
     THEN /\ pc' = "rec_ret"
          /\ recommended_playlist' = NoneDict
          /\ UNCHANGED <<search_vars, playlists, searches>>
     ELSE /\ SearchCall(mood_keywords)
          /\ UNCHANGED recommended_playlist
  /\ UNCHANGED <<config_vars, sp, detector_vars, gate_vars, run_detected_mood,
                 mood_keywords, opened, requested_url,
                 success>>

\* spotify_client.py 192-239: one keyword of the loop; Responses is what sp.search can do
SearchKeyword(Responses) ==
  /\ pc = "search"
  /\ ki <= Len(keywords)
  /\ ki' = ki + 1
  /\ IF SkipKeyword(keywords[ki])
     THEN UNCHANGED <<requests, last_response, failed_at, results, all_playlists>>
     ELSE \E response \in Responses :
            /\ requests' = Append(requests, keywords[ki])
            /\ last_response' = response.kind
            /\ failed_at' = IF response.kind = "raised" THEN ki ELSE failed_at
            /\ results' = IF response.kind = "raised" THEN results
                          ELSE ResponseItems(response)
            /\ all_playlists' = Collected(all_playlists, response)
  /\ UNCHANGED <<pc, config_vars, sp, detector_vars, gate_vars, run_detected_mood,
                 mood_keywords, keywords, playlists, searches,
                 recommended_playlist, opened, requested_url,
                 success>>

\* spotify_client.py 241-244
SearchReturn ==
  /\ pc = "search"
  /\ ki > Len(keywords)
  /\ playlists' = _remove_duplicates(all_playlists)
  /\ pc' = "searched"
  /\ UNCHANGED <<config_vars, sp, detector_vars, gate_vars, run_detected_mood,
                 mood_keywords, search_vars, searches, recommended_playlist, opened,
                 requested_url,
                 success>>

\* the broader search is made whatever the first search returned
BroaderSearch_always ==
  /\ pc = "searched"
  /\ Len(searches) = 1
  /\ SearchCall(broader_keywords)
  /\ UNCHANGED <<config_vars, sp, detector_vars, gate_vars, run_detected_mood,
                 mood_keywords, recommended_playlist, opened, requested_url,
                 success>>

\* spotify_client.py 267-272
BroaderSearch ==
  /\ pc = "searched"
  /\ Len(searches) = 1
  /\ playlists = <<>>
  /\ SearchCall(broader_keywords)
  /\ UNCHANGED <<config_vars, sp, detector_vars, gate_vars, run_detected_mood,
                 mood_keywords, recommended_playlist, opened, requested_url,
                 success>>

\* spotify_client.py 274-286
Select ==
  /\ pc = "searched"
  /\ ~(Len(searches) = 1 /\ playlists = <<>>)
  /\ IF playlists = <<>>
     THEN recommended_playlist' = NoneDict
     ELSE \E i \in 1..Len(QualityPlaylists(playlists)) :
            recommended_playlist' = QualityPlaylists(playlists)[i]
  /\ pc' = "rec_ret"
  /\ UNCHANGED <<config_vars, sp, detector_vars, gate_vars, run_detected_mood,
                 mood_keywords, search_vars, playlists, searches, opened, requested_url,
                 success>>

NoSearch == /\ keywords = <<>>
            /\ ki = 0
            /\ searches = <<>>
            /\ requests = <<>>
            /\ last_response = "none"
            /\ failed_at = 0
            /\ recommended_playlist = NoneDict

\* the locals of the recommender are gone
ForgetSearch == /\ mood_keywords' = <<>>
                /\ keywords' = <<>>
                /\ ki' = 0
                /\ results' = <<>>
                /\ all_playlists' = <<>>
                /\ playlists' = <<>>
                /\ searches' = <<>>
                /\ requests' = <<>>
                /\ last_response' = "none"
                /\ failed_at' = 0
                /\ recommended_playlist' = NoneDict

\* main.py 94-111: the recommender has returned
RecommendReturn ==
  /\ pc = "rec_ret"
  /\ \E browser_ok \in BOOLEAN :
       IF recommended_playlist # NoneDict
       THEN /\ requested_url' = recommended_playlist.url
            /\ opened' = IF browser_ok
                         THEN open_playlist_in_browser(recommended_playlist.url)
                         ELSE NoUrl
            /\ success' = TRUE
       ELSE /\ requested_url' = NoUrl
            /\ opened' = NoUrl
            /\ success' = FALSE
  /\ ForgetSearch
  /\ pc' = "ask"
  /\ UNCHANGED <<config_vars, sp, detector_vars, gate_vars, run_detected_mood>>

(* ---------------------------------------------------------------- the run *)
\* SpotifyClient.authenticate; oauth_ok: SpotifyOAuth and spotipy.Spotify did not raise
authenticate(oauth_ok) ==
  IF client_id = "" \/ client_secret = "" \/ redirect_uri = "" THEN FALSE
  ELSE IF client_id = PLACEHOLDER_ID \/ client_secret = PLACEHOLDER_SECRET THEN FALSE
  ELSE oauth_ok

\* MoodDetector.initialize_camera: the handle after VideoCapture(camera_index)
initialize_camera(camera) ==
  CASE camera = "opened" -> "open"
    [] camera = "not_opened" -> "closed"
    [] camera = "raised" -> cap

\* MoodPlaylistRecommender.initialize, called by run (main.py 218-220)
Initialize ==
  /\ pc = "start"
  /\ \E camera \in {"opened", "not_opened", "raised"}, oauth_ok \in BOOLEAN :
       IF client_id = PLACEHOLDER_ID \/ client_secret = PLACEHOLDER_SECRET
       THEN pc' = "exit" /\ UNCHANGED <<cap, sp>>
       ELSE /\ cap' = initialize_camera(camera)
            /\ IF cap' # "open"
               THEN pc' = "exit" /\ UNCHANGED sp
               ELSE /\ sp' = authenticate(oauth_ok)
                    /\ pc' = IF sp' THEN "cycle_start" ELSE "exit"
  /\ UNCHANGED <<config_vars, face_cascade, frame_count, current_emotion_index,
                 last_emotion_time, clock, gate_vars, run_detected_mood, rec_vars>>

\* main.py 236-241: ask_try_again and the next iteration of the loop of run
AskTryAgain ==
  /\ pc = "ask"
  /\ \E response \in {"y", "n", "eof"} :
       pc' = IF response = "y" THEN "cycle_start" ELSE "finally"
  /\ run_detected_mood' = Unbound
  /\ success' = Unbound
  /\ opened' = NoUrl
  /\ requested_url' = NoUrl
  /\ UNCHANGED <<config_vars, sp, detector_vars, gate_vars, mood_keywords, search_vars,
                 playlists, searches, recommended_playlist>>

\* main.py 243-244: a KeyboardInterrupt anywhere in the try block of run
TryBlock == {"cycle_start", "cycle", "cycle_ret", "recommend", "get_rec", "search",
             "searched", "rec_ret", "ask"}

\* the locals of the functions the exception leaves are gone
Interrupt ==
  /\ pc \in TryBlock
  /\ pc' = "finally"
  /\ last_mood' = Unbound
  /\ mood_stability_count' = Unbound
  /\ detected_mood' = Unbound
  /\ attempt' = NoAttempt
  /\ labels' = <<>>
  /\ ForgetSearch
  /\ UNCHANGED <<config_vars, sp, detector_vars, run_detected_mood, opened, requested_url,
                 success>>

\* MoodDetector.release
release(handle) == IF handle # "none" THEN "released" ELSE handle

\* main.py 249-253
Finally ==
  /\ pc = "finally"
  /\ cap' = release(cap)
  /\ pc' = "done"
  /\ UNCHANGED <<config_vars, sp, face_cascade, frame_count, current_emotion_index,
                 last_emotion_time, clock, gate_vars, run_detected_mood, rec_vars>>

(* ---------------------------------------------------------- environment *)
\* playlists the catalog can return
Good == Raw("Happy Hits", Url("playlist/1"), 50, "dict")
Twin == Raw("Feel Good", Url("playlist/1"), 5, "dict")
Short == Raw("Mellow", Url("playlist/2"), 8, "dict")
Mirror == Raw("Mirror", <<"http://example.com/", "playlist/3">>, 12, "dict")

Response(items) == [kind |-> "ok", items |-> items]
Failures == {[kind |-> k, items |-> <<>>] :
               k \in {"raised", "no_result", "bad_playlists", "bad_items"}}

\* what sp.search answers during a run
RunResponses ==
  {[kind |-> "raised", items |-> <<>>], Response(<<>>), Response(<<Good>>),
   Response(<<Mirror>>)}

(* ------------------------------------------------------- the whole program *)
\* MoodDetector.__init__ (mood_detector.py 22-42) and main.py 37, nothing running
Constructed ==
  /\ frame_count = 0
  /\ current_emotion_index = 0
  /\ last_emotion_time = 0
  /\ clock = 0
  /\ last_mood = Unbound
  /\ mood_stability_count = Unbound
  /\ detected_mood = Unbound
  /\ run_detected_mood = Unbound
  /\ attempt = NoAttempt
  /\ labels = <<>>
  /\ opened = NoUrl
  /\ requested_url = NoUrl
  /\ success = Unbound

Init ==
  /\ pc = "start"
  /\ client_id \in {PLACEHOLDER_ID, "", "id"}
  /\ client_secret \in {PLACEHOLDER_SECRET, "", "secret"}
  /\ redirect_uri \in {DEFAULT_REDIRECT, ""}
  /\ cap = "none"
  /\ face_cascade \in BOOLEAN
  /\ sp = FALSE
  /\ Constructed
  /\ mood_keywords = <<>>
  /\ results = <<>>
  /\ all_playlists = <<>>
  /\ playlists = <<>>
  /\ NoSearch

Next ==
  \/ Initialize
  \/ CycleStart
  \/ Attempt
  \/ CycleReturn
  \/ RecommendPlaylist
  \/ GetRecommendation
  \/ SearchKeyword(RunResponses)
  \/ SearchReturn
  \/ BroaderSearch
  \/ Select
  \/ RecommendReturn
  \/ AskTryAgain
  \/ Interrupt
  \/ Finally

Spec == Init /\ [][Next]_vars

(* ------------------------------------------- the recommender, on any input *)
\* the program after a successful initialize
Initialized ==
  /\ client_id = "id"
  /\ client_secret = "secret"
  /\ redirect_uri = DEFAULT_REDIRECT
  /\ cap = "open"
  /\ face_cascade = TRUE
  /\ sp = TRUE
  /\ Constructed

RECURSIVE SeqsUpTo(_, _)
SeqsUpTo(S, n) ==
  IF n = 0 THEN {<<>>}
  ELSE LET shorter == SeqsUpTo(S, n - 1)
       IN shorter \cup {Append(q, x) : q \in {t \in shorter : Len(t) = n - 1}, x \in S}

Hollow == Raw("Hollow", Url("playlist/4"), 0, "dict")

RawItems == {NoneDict, Good, Twin, Short, Hollow}

Responses == Failures \cup {Response(items) : items \in SeqsUpTo(RawItems, MaxItems)}

KeywordLists ==
  {<<>>, <<"chill">>, <<"", "chill">>, <<"chill", "<42>", "lofi">>,
   <<"chill", "lofi", "study">>, <<"<42>", "">>}

InitRec ==
  /\ pc = "get_rec"
  /\ Initialized
  /\ mood_keywords \in KeywordLists
  /\ results = <<>>
  /\ all_playlists = <<>>
  /\ playlists = <<>>
  /\ NoSearch

NextRec ==
  \/ GetRecommendation
  \/ SearchKeyword(Responses)
  \/ SearchReturn
  \/ BroaderSearch
  \/ Select

SpecRec == InitRec /\ [][NextRec]_vars

(* --------------------------------------------- de-duplication, on any list *)
Info(name, url, tracks_count) ==
  [name |-> name, url |-> url, tracks_count |-> tracks_count]

DedupEntries ==
  {NoneDict, Info("Happy Hits", Url("playlist/1"), 50),
   Info("Feel Good", Url("playlist/1"), 5), Info("Mellow", Url("playlist/2"), 8),
   Info("Lost", NoUrl, 12)}

InitDedup ==
  /\ pc = "dedup"
  /\ Initialized
  /\ mood_keywords = <<>>
  /\ results = <<>>
  /\ all_playlists \in SeqsUpTo(DedupEntries, MaxList)
  /\ playlists = <<>>
  /\ NoSearch

\* spotify_client.py 241: unique_playlists = self._remove_duplicates(all_playlists)
RemoveDuplicates ==
  /\ pc = "dedup"
  /\ playlists' = _remove_duplicates(all_playlists)
  /\ pc' = "deduped"
  /\ UNCHANGED <<config_vars, sp, detector_vars, gate_vars, run_detected_mood,
                 mood_keywords, search_vars, searches, recommended_playlist, opened,
                 requested_url,
                 success>>

SpecDedup == InitDedup /\ [][RemoveDuplicates]_vars

(* --------------------------------------- one keyword, on any raw response *)
RawDomain ==
  {NoneDict} \cup
  {Raw(name, url, total, owner) :
     name \in {"", "Mellow"}, url \in {NoUrl, Url("playlist/2")},
     total \in {0, 1, 12}, owner \in {"none", "dict", "str"}}

RawResponses ==
  Failures \cup {Response(items) : items \in SeqsUpTo(RawDomain, MaxResults)}

\* inside search_mood_playlists(["chill"]), before the loop
InitValidate ==
  /\ pc = "search"
  /\ Initialized
  /\ mood_keywords = <<"chill">>
  /\ searches = <<mood_keywords>>
  /\ keywords = mood_keywords
  /\ ki = 1
  /\ requests = <<>>
  /\ last_response = "none"
  /\ failed_at = 0
  /\ results = <<>>
  /\ all_playlists = <<>>
  /\ playlists = <<>>
  /\ recommended_playlist = NoneDict

NextValidate ==
  \/ SearchKeyword(RawResponses)
  \/ SearchReturn

SpecValidate == InitValidate /\ [][NextValidate]_vars

(* ------------------------------------------------- the rotation, over time *)
InitRotation ==
  /\ pc = "rotation"
  /\ client_id = "id"
  /\ client_secret = "secret"
  /\ redirect_uri = DEFAULT_REDIRECT
  /\ cap = "none"
  /\ face_cascade = TRUE
  /\ sp = FALSE
  /\ Constructed
  /\ mood_keywords = <<>>
  /\ results = <<>>
  /\ all_playlists = <<>>
  /\ playlists = <<>>
  /\ NoSearch

\* a second of wall-clock time goes by
Tick ==
  /\ pc = "rotation"
  /\ clock < MaxTime
  /\ clock' = clock + 1
  /\ UNCHANGED <<pc, config_vars, sp, cap, face_cascade, frame_count,
                 current_emotion_index, last_emotion_time, gate_vars, run_detected_mood,
                 rec_vars>>

\* mood_detector.py 128-143: a call of demo_emotion_rotation, its label in detected_mood
DemoEmotionRotation ==
  /\ pc = "rotation"
  /\ LET rot == demo_emotion_rotation(current_emotion_index, last_emotion_time, clock)
     IN /\ current_emotion_index' = rot.index
        /\ last_emotion_time' = rot.last
        /\ detected_mood' = emotions[rot.index + 1]
  /\ UNCHANGED <<pc, config_vars, sp, cap, face_cascade, frame_count, clock, last_mood,
                 mood_stability_count, attempt, labels, run_detected_mood, rec_vars>>

NextRotation == Tick \/ DemoEmotionRotation

SpecRotation == InitRotation /\ [][NextRotation]_vars

(* ================================================================ claims *)
InCycle == pc \in {"cycle", "cycle_ret"}

\* the length of the run of equal labels that ends seq
RECURSIVE TrailingRun(_)
TrailingRun(seq) ==
  IF seq = <<>> THEN 0
  ELSE IF Len(seq) = 1 THEN 1
  ELSE IF seq[Len(seq)] # seq[Len(seq) - 1] THEN 1
  ELSE 1 + TrailingRun(SubSeq(seq, 1, Len(seq) - 1))

\* the last required_stability labels of seq are all L
LastAre(seq, L) ==
  /\ Len(seq) >= required_stability
  /\ \A i \in (Len(seq) - required_stability + 1)..Len(seq) : seq[i] = L

\* C1: the counter is the length of the run of equal labels that ends the stream of
\* non-None labels (a different label restarts it at 1, with that label held); it
\* reaches the threshold exactly when the last 3 labels are the held label, the loop
\* never goes on past that attempt, and a cycle that returns a label returns that one.
C1_ConfirmedAtThreshold ==
  InCycle =>
    /\ mood_stability_count = TrailingRun(labels)
    /\ last_mood = (IF labels = <<>> THEN None ELSE labels[Len(labels)])
    /\ (mood_stability_count = required_stability) <=> LastAre(labels, last_mood)
    /\ pc = "cycle" => mood_stability_count < required_stability
    /\ (pc = "cycle_ret" /\ run_detected_mood # None) =>
         /\ LastAre(labels, run_detected_mood)
         /\ detected_mood = run_detected_mood
    /\ (pc = "cycle_ret" /\ LastAre(labels, last_mood) /\ ~attempt.quit /\ ~attempt.display)
         => run_detected_mood = last_mood

\* happy, then sad three times: sad is confirmed at the fourth label
C1_Witness ==
  /\ pc = "cycle_ret"
  /\ labels = <<"happy", "sad", "sad", "sad">>
  /\ run_detected_mood = "sad"

\* C2: an attempt that delivers no label leaves the held label and the counter as
\* they were, whether the loop goes on or returns.
C2_NoneLeavesGate ==
  [][(pc = "cycle" /\ pc' \in {"cycle", "cycle_ret"} /\ detected_mood' = None) =>
       /\ last_mood' = last_mood
       /\ mood_stability_count' = mood_stability_count
       /\ labels' = labels]_vars

\* the state after an attempt without a label, with the counter still at 2
C2_Witness ==
  /\ pc = "cycle"
  /\ detected_mood = None
  /\ mood_stability_count = 2
  /\ labels = <<"happy", "happy">>

C10_QuitDiscards ==
  /\ [](pc = "cycle_ret" /\ attempt.quit => run_detected_mood = None)
  /\ [](pc = "cycle" /\ detected_mood = Unbound =>
          last_mood = None /\ mood_stability_count = 0 /\ labels = <<>>)
  /\ [][(pc = "cycle_ret" /\ attempt.quit) =>
          /\ pc' \in {"ask", "finally"}
          /\ last_mood' = Unbound
          /\ mood_stability_count' = Unbound
          /\ requests' = requests
          /\ searches' = searches
          /\ opened' = opened]_vars

\* the quit key was seen at the attempt that made the label stable
C10_Witness ==
  /\ pc = "cycle_ret"
  /\ attempt.quit
  /\ mood_stability_count = required_stability
  /\ run_detected_mood = None

\* the positions of list whose entry is the first one with its non-empty URL
FirstOfUrl(list) ==
  {i \in 1..Len(list) :
     /\ list[i] # NoneDict
     /\ list[i].url # NoUrl
     /\ \A j \in 1..(i - 1) : list[j] = NoneDict \/ list[j].url # list[i].url}

\* the k-th smallest member of a set of numbers
Kth(S, k) == CHOOSE i \in S : Cardinality({j \in S : j <= i}) = k

\* C4: the de-duplicated list holds, for each distinct non-empty URL of the input,
\* exactly one entry, which is the earliest input entry with that URL, and its
\* entries stand in the order in which they stand in the input.
C4_DedupFirstWins ==
  pc = "deduped" =>
    LET keep == FirstOfUrl(all_playlists)
    IN /\ Len(playlists) = Cardinality(keep)
       /\ \A k \in 1..Len(playlists) : playlists[k] = all_playlists[Kth(keep, k)]
       /\ \A k, l \in 1..Len(playlists) : playlists[k].url = playlists[l].url => k = l
       /\ \A i \in 1..Len(all_playlists) :
            (all_playlists[i] # NoneDict /\ all_playlists[i].url # NoUrl) =>
              \E k \in 1..Len(playlists) : playlists[k].url = all_playlists[i].url

\* two names under one URL, a second URL, then the first entry again
C4_Witness ==
  /\ pc = "deduped"
  /\ all_playlists = <<Info("Happy Hits", Url("playlist/1"), 50),
                       Info("Feel Good", Url("playlist/1"), 5),
                       Info("Mellow", Url("playlist/2"), 8),
                       Info("Happy Hits", Url("playlist/1"), 50)>>
  /\ playlists = <<Info("Happy Hits", Url("playlist/1"), 50),
                   Info("Mellow", Url("playlist/2"), 8)>>

Range(seq) == {seq[i] : i \in 1..Len(seq)}

\* C5: when the de-duplicated list is not empty, the recommendation is one of its
\* entries; it has 10 tracks or more if any entry has, and otherwise may be any
\* entry of the list.
C5_QualityFallback ==
  (pc = "rec_ret" /\ playlists # <<>>) =>
    /\ recommended_playlist \in Range(playlists)
    /\ (\E p \in Range(playlists) : p.tracks_count >= 10) =>
         recommended_playlist.tracks_count >= 10

\* no entry has 10 tracks, and the second of two entries was chosen
C5_Witness ==
  /\ pc = "rec_ret"
  /\ Len(playlists) = 2
  /\ \A p \in Range(playlists) : p.tracks_count < 10
  /\ recommended_playlist = playlists[2]

\* C6: there are at most two searches; the second one is over ("music", "playlist",
\* "songs") and is made exactly when the search over the mood's keywords returned
\* nothing; after a search, None is returned only when a second search was made and
\* returned nothing as well.
C6_GenericRetry ==
  /\ [](/\ Len(searches) <= 2
        /\ Len(searches) >= 1 => searches[1] = mood_keywords
        /\ Len(searches) = 2 => searches[2] = <<"music", "playlist", "songs">>)
  /\ []((pc = "rec_ret" /\ searches # <<>> /\ recommended_playlist = NoneDict) =>
          Len(searches) = 2 /\ playlists = <<>>)
  /\ []((pc = "rec_ret" /\ playlists = <<>>) => recommended_playlist = NoneDict)
  /\ [][(pc = "searched" /\ Len(searches) = 1) =>
          IF playlists = <<>>
          THEN pc' = "search" /\ searches' = <<mood_keywords, broader_keywords>>
          ELSE pc' = "rec_ret" /\ searches' = searches]_vars

\* both searches were made, every request of the second answered, and None returned
C6_Witness ==
  /\ pc = "rec_ret"
  /\ Len(searches) = 2
  /\ searches[1] = <<"chill", "lofi", "study">>
  /\ requests = <<"music", "playlist", "songs">>
  /\ recommended_playlist = NoneDict

\* the raw items of a response that are accepted
Accepted(items) ==
  SelectSeq(items, LAMBDA r :
    /\ r # NoneDict
    /\ r.name # ""
    /\ r.url # NoUrl
    /\ r.total > 0
    /\ r.owner = "dict")

\* C7: the candidates a response adds are the projections of exactly those raw items
\* that have a non-empty name, a non-empty URL, a track total above 0 and an owner
\* object, in their order; every candidate of the returned list has a track count
\* above 0.
C7_Validation ==
  /\ [][(pc = "search" /\ requests' # requests /\ last_response' = "ok") =>
          /\ Len(all_playlists') = Len(all_playlists) + Len(Accepted(results'))
          /\ \A i \in 1..Len(Accepted(results')) :
               LET r == Accepted(results')[i]
                   c == all_playlists'[Len(all_playlists) + i]
               IN c.name = r.name /\ c.url = r.url /\ c.tracks_count = r.total]_vars
  /\ [](pc \in {"search", "searched"} =>
          \A i \in 1..Len(all_playlists) : all_playlists[i].tracks_count > 0)
  /\ [](pc = "searched" => \A i \in 1..Len(playlists) : playlists[i].tracks_count > 0)

\* of two raw items that differ in the track total only, the one with 0 was dropped
C7_Witness ==
  /\ pc = "searched"
  /\ Len(results) = 2
  /\ results[1] = Raw("Mellow", Url("playlist/2"), 0, "dict")
  /\ results[2] = Raw("Mellow", Url("playlist/2"), 12, "dict")
  /\ Len(playlists) = 1
  /\ playlists[1].tracks_count = 12

IsPrefix(a, b) == Len(a) <= Len(b) /\ SubSeq(b, 1, Len(a)) = a

\* C8: requests go out for the keywords that are non-empty strings, in the order of
\* the list, and for no others; a step of the loop, failed request or not, goes on to
\* the next keyword with the candidates collected so far kept; the loop ends after
\* the last keyword only, and every collected candidate's URL is in the returned list.
C8_PartialFailure ==
  /\ [](pc \in {"search", "searched"} /\ sp =>
          /\ ki \in 1..(Len(keywords) + 1)
          /\ requests = SelectSeq(SubSeq(keywords, 1, ki - 1),
                                  LAMBDA k : k # "" /\ k # "<42>"))
  /\ [][(pc = "search" /\ ki <= Len(keywords)) =>
          /\ pc' = "search"
          /\ ki' = ki + 1
          /\ IsPrefix(all_playlists, all_playlists')
          /\ failed_at' = ki => all_playlists' = all_playlists]_vars
  /\ []((pc = "searched" /\ sp /\ keywords # <<>>) =>
          /\ ki = Len(keywords) + 1
          /\ \A i \in 1..Len(all_playlists) :
               \E k \in 1..Len(playlists) : playlists[k].url = all_playlists[i].url)

\* the request for the second of three keywords failed, the third brought another
\* candidate, and the candidates of the first and the third are both returned
C8_Witness ==
  /\ pc = "searched"
  /\ Len(requests) = 3
  /\ failed_at = 2
  /\ results = <<Short>>
  /\ playlists = <<_extract_playlist_info(Good), _extract_playlist_info(Short)>>

\* the order the labels are expected in
RotationOrder == <<"happy", "sad", "neutral", "angry", "surprise">>

\* C9: the pointer stays within the five labels; a call more than 10 seconds after
\* the last advance (or after construction) moves the pointer to the next label, in
\* the order happy, sad, neutral, angry, surprise, happy, sets the timestamp to the
\* time of the call and returns the new label; any other call returns the current
\* label and leaves pointer and timestamp as they were.
C9_Rotation ==
  /\ [](pc = "rotation" =>
          /\ current_emotion_index \in 0..4
          /\ last_emotion_time <= clock)
  /\ [][(pc = "rotation" /\ clock' = clock) =>
          IF clock - last_emotion_time > 10
          THEN /\ current_emotion_index' =
                    (IF current_emotion_index = 4 THEN 0 ELSE current_emotion_index + 1)
               /\ last_emotion_time' = clock
               /\ detected_mood' = RotationOrder[current_emotion_index' + 1]
          ELSE /\ current_emotion_index' = current_emotion_index
               /\ last_emotion_time' = last_emotion_time
               /\ detected_mood' = RotationOrder[current_emotion_index + 1]]_vars

\* the pointer has gone through all five labels and is back at happy
C9_Witness ==
  /\ pc = "rotation"
  /\ current_emotion_index = 0
  /\ last_emotion_time >= 55
  /\ detected_mood = "happy"

\* a credential that is empty or still the placeholder of config.py
BadCredentials ==
  \/ client_id \in {"", PLACEHOLDER_ID}
  \/ client_secret \in {"", PLACEHOLDER_SECRET}

\* C11: with a client id or client secret that is missing (empty) or the placeholder,
\* the run never gets past initialize, the camera is never opened and the catalog client
\* is never created nor asked anything.
C11_ConfigFatal ==
  BadCredentials =>
    /\ pc \in {"start", "exit"}
    /\ cap # "open"
    /\ ~sp
    /\ searches = <<>>
    /\ requests = <<>>

\* C12: when run has returned, on whichever path, the camera is not left open: a
\* camera that was opened has been released.
C12_CameraReleased ==
  pc \in {"exit", "done"} => cap # "open"

\* C13: the run gets past initialize only with an opened camera, and a loop iteration
\* of a detection cycle in which no frame could be read ends the cycle, which returns
\* None, instead of going on to another iteration.
C13_DeviceErrorsFatal ==
  /\ [](pc \notin {"start", "exit"} => cap \in {"open", "released"})
  /\ [][(pc = "cycle" /\ pc' \in {"cycle", "cycle_ret"} /\ ~attempt'.frame) =>
          (pc' = "cycle_ret" /\ run_detected_mood' = None)]_vars

\* C14: the browser is handed a URL only if recommend_playlist called
\* open_playlist_in_browser with it and it starts with https://open.spotify.com/;
\* recommend_playlist returns True whenever the recommender returned a playlist,
\* whether the URL was opened, refused or the browser failed, and False otherwise.
C14_BrowserPrefix ==
  /\ [](opened # NoUrl => (opened = requested_url /\ opened[1] = "https://open.spotify.com/"))
  /\ [][(pc = "rec_ret" /\ pc' = "ask") =>
          IF recommended_playlist # NoneDict
          THEN success' = TRUE /\ requested_url' = recommended_playlist.url
          ELSE success' = FALSE /\ requested_url' = NoUrl /\ opened' = NoUrl]_vars

\* a chosen playlist whose URL is on another host: nothing was opened, success reported
C14_Witness ==
  /\ pc = "ask"
  /\ requested_url # NoUrl
  /\ requested_url[1] # "https://open.spotify.com/"
  /\ opened = NoUrl
  /\ success = TRUE

\* C15: a loop iteration on a sampled frame during whose detection an exception was
\* raised, in feature detection or elsewhere in detect_mood_from_frame, delivers no
\* label: the held label and the counter stay as they were, and the loop goes on
\* unless the quit key or a display error ends the cycle.
C15_DetectionExceptionNoLabel ==
  [][(/\ pc = "cycle"
      /\ pc' \in {"cycle", "cycle_ret"}
      /\ attempt'.processed
      /\ attempt'.fault # "none") =>
       /\ detected_mood' = None
       /\ last_mood' = last_mood
       /\ mood_stability_count' = mood_stability_count
       /\ (~attempt'.quit /\ ~attempt'.display) => pc' = "cycle"]_vars

\* C16: a loop iteration advances the count of captured frames by one exactly when a
\* frame was read, and not at all on a failed read; the frame goes to inference exactly
\* when the new count is a multiple of 30, and every other iteration delivers no label;
\* nothing but a loop iteration changes the count, so it is carried from one cycle
\* to the next.
C16_FrameSampling ==
  /\ [][(pc = "cycle" /\ pc' \in {"cycle", "cycle_ret"}) =>
          /\ frame_count' = (IF attempt'.frame THEN frame_count + 1 ELSE frame_count)
          /\ attempt'.processed <=> (attempt'.frame /\ frame_count' % 30 = 0)
          /\ ~attempt'.processed => detected_mood' = None]_vars
  /\ [][(pc # "cycle" \/ pc' \notin {"cycle", "cycle_ret"}) =>
          frame_count' = frame_count]_vars

\* the fourth sampled frame since construction, in a cycle that has received one
\* label so far
C16_Witness ==
  /\ pc \in {"cycle", "cycle_ret"}
  /\ attempt.processed
  /\ frame_count = 120
  /\ Len(labels) = 1

\* C17: within a cycle the counter is between 0 and 3 and is 0 exactly when no label is
\* held; a loop iteration leaves it, adds 1 to it or sets it to 1; a cycle that returns
\* a label does so with the counter at 3 and returns the held label.
C17_GateInvariants ==
  /\ [](pc \in {"cycle", "cycle_ret"} =>
          /\ mood_stability_count \in 0..3
          /\ (mood_stability_count = 0) <=> (last_mood = None))
  /\ [](pc = "cycle_ret" /\ run_detected_mood # None =>
          mood_stability_count = 3 /\ run_detected_mood = last_mood)
  /\ [][(pc = "cycle" /\ pc' \in {"cycle", "cycle_ret"}) =>
          \/ mood_stability_count' = mood_stability_count
          \/ mood_stability_count' = mood_stability_count + 1
          \/ mood_stability_count' = 1]_vars

\* three equal labels from the start of the cycle: the label is returned at counter 3
C17_Witness ==
  /\ pc = "cycle_ret"
  /\ labels = <<"neutral", "neutral", "neutral">>
  /\ mood_stability_count = 3
  /\ last_mood = "neutral"
  /\ run_detected_mood = "neutral"

====
